---- MODULE Spec2Model ----
(***************************************************************************)
(* Model of lib/many_to_many.py: Author, Book and the join entity Contract *)
(* with their process-wide registries (Author.all, Book.all, Contract.all),*)
(* the validating property setters and the derived relationship queries.   *)
(*                                                                         *)
(* Python values are tagged records [kind, s, n]: kind is the value's      *)
(* class, s the text of a str, n the number of an int/bool or the identity *)
(* of an instance.  Instances live in per-class heaps (id -> fields); the  *)
(* registries are sequences of instance identities.                        *)
(***************************************************************************)
EXTENDS Integers, Sequences, FiniteSets, TLC

\* Total number of instances (authors + books + contracts) ever constructed,
\* without and with the record of the latest call.
MaxInstances == 5
MaxLogged == 4

VARIABLES Author_all, Book_all, Contract_all,
          author_obj, book_obj, contract_obj, last

vars == <<Author_all, Book_all, Contract_all, author_obj, book_obj, contract_obj, last>>

registries == <<Author_all, Book_all, Contract_all>>
heap == <<author_obj, book_obj, contract_obj>>

----------------------------------------------------------------------------
\* Python values

PyStr(t) == [kind |-> "str", s |-> t, n |-> 0]
PyInt(i) == [kind |-> "int", s |-> "", n |-> i]
PyBool(b) == [kind |-> "bool", s |-> "", n |-> IF b THEN 1 ELSE 0]
PyFloat(t) == [kind |-> "float", s |-> t, n |-> 0]
NoneV == [kind |-> "NoneType", s |-> "", n |-> 0]
AuthorRef(i) == [kind |-> "Author", s |-> "", n |-> i]
BookRef(i) == [kind |-> "Book", s |-> "", n |-> i]
ContractRef(i) == [kind |-> "Contract", s |-> "", n |-> i]
\* an attribute that has not been assigned yet
Unset == [kind |-> "unset", s |-> "", n |-> 0]

\* The classes a value of class k is an instance of (bool subclasses int).
Bases(k) == IF k = "bool" THEN {"bool", "int", "object"} ELSE {k, "object"}

\* isinstance(value, cls)
isinstance(value, cls) == cls \in Bases(value.kind)

\* v == w for the values above (no class here overrides __eq__)
PyEq(v, w) ==
    IF v.kind = "str" /\ w.kind = "str" THEN v.s = w.s
    ELSE IF v.kind \in {"int", "bool"} /\ w.kind \in {"int", "bool"} THEN v.n = w.n
    ELSE v = w

\* v is w, for instance references
PyIs(v, w) == v.kind = w.kind /\ v.n = w.n

----------------------------------------------------------------------------
\* Inputs of the calls

Strings == {PyStr("s"), PyStr("t")}
NonStrings == {PyInt(2), NoneV}
IntValues == {PyInt(-1), PyInt(0)}
NonIntegers == {PyFloat("1.5"), PyStr("s")}
Booleans == {PyBool(TRUE)}

AuthorRefs == {AuthorRef(Author_all[i]) : i \in DOMAIN Author_all}
BookRefs == {BookRef(Book_all[i]) : i \in DOMAIN Book_all}

\* values assigned to a field after construction
NameInputs == Strings \cup NonStrings
AuthorInputs == AuthorRefs \cup BookRefs
BookInputs == BookRefs \cup AuthorRefs
DateInputs == Strings \cup {NoneV}
RoyaltiesInputs == IntValues \cup Booleans \cup NonIntegers

\* arguments of the constructors and of sign_contract
AuthorArgs == AuthorRefs \cup {PyStr("s")}
BookArgs == BookRefs \cup {PyStr("not a book")}
DateArgs == Strings \cup {PyInt(2)}
RoyaltiesArgs == IntValues \cup Booleans \cup {PyFloat("1.5")}

\* The latest call: its name, whether it raised, and the instance it returned.
\* The record is kept only when log is set; without it last stays NoCall.
NoCall == [op |-> "none", raised |-> FALSE, ret |-> NoneV]
Call(log, op, raised, ret) ==
    IF log THEN [op |-> op, raised |-> raised, ret |-> ret] ELSE NoCall

\* A construction is attempted only while there is room for one more instance.
Instances == Cardinality(DOMAIN author_obj) + Cardinality(DOMAIN book_obj)
             + Cardinality(DOMAIN contract_obj)
Room(log) == Instances < (IF log THEN MaxLogged ELSE MaxInstances)

Init ==
    /\ Author_all = <<>>
    /\ Book_all = <<>>
    /\ Contract_all = <<>>
    /\ author_obj = <<>>
    /\ book_obj = <<>>
    /\ contract_obj = <<>>
    /\ last = NoCall

----------------------------------------------------------------------------
\* Author

\* Author.name setter, on the fields obj of the instance
Author_name_set(obj, value) ==
    IF ~isinstance(value, "str")
    THEN [raised |-> TRUE, obj |-> obj]
    ELSE [raised |-> FALSE, obj |-> [obj EXCEPT !.name = value]]

\* Author.__init__ registering the new instance at the front of Author.all
Author_init_Front(name) ==
    LET id == Cardinality(DOMAIN author_obj) + 1
        r == Author_name_set([name |-> Unset], name)
    IN IF r.raised
       THEN [raised |-> TRUE, all |-> Author_all, objs |-> author_obj, ret |-> NoneV]
       ELSE [raised |-> FALSE, all |-> <<id>> \o Author_all,
             objs |-> (id :> r.obj) @@ author_obj, ret |-> AuthorRef(id)]

\* Author.__init__: the registry and heap after the call, and what the caller gets
Author_init(name) ==
    LET id == Cardinality(DOMAIN author_obj) + 1
        r == Author_name_set([name |-> Unset], name)
    IN IF r.raised
       THEN [raised |-> TRUE, all |-> Author_all, objs |-> author_obj, ret |-> NoneV]
       ELSE [raised |-> FALSE, all |-> Append(Author_all, id),
             objs |-> (id :> r.obj) @@ author_obj, ret |-> AuthorRef(id)]

\* Author(name)
NewAuthor(log, name) ==
    LET r == Author_init(name)
    IN /\ Room(log)
       /\ Author_all' = r.all
       /\ author_obj' = r.objs
       /\ last' = Call(log, "Author", r.raised, r.ret)
       /\ UNCHANGED <<Book_all, Contract_all, book_obj, contract_obj>>

\* a.name = value
SetAuthorName(log, a, value) ==
    LET r == Author_name_set(author_obj[a], value)
    IN /\ author_obj' = [author_obj EXCEPT ![a] = r.obj]
       /\ last' = Call(log, "Author.name=", r.raised, NoneV)
       /\ UNCHANGED <<registries, book_obj, contract_obj>>

----------------------------------------------------------------------------
\* Book

\* Book.title setter, on the fields obj of the instance
Book_title_set(obj, value) ==
    IF ~isinstance(value, "str")
    THEN [raised |-> TRUE, obj |-> obj]
    ELSE [raised |-> FALSE, obj |-> [obj EXCEPT !.title = value]]

\* Book.__init__
Book_init(title) ==
    LET id == Cardinality(DOMAIN book_obj) + 1
        r == Book_title_set([title |-> Unset], title)
    IN IF r.raised
       THEN [raised |-> TRUE, all |-> Book_all, objs |-> book_obj, ret |-> NoneV]
       ELSE [raised |-> FALSE, all |-> Append(Book_all, id),
             objs |-> (id :> r.obj) @@ book_obj, ret |-> BookRef(id)]

\* Book(title)
NewBook(log, title) ==
    LET r == Book_init(title)
    IN /\ Room(log)
       /\ Book_all' = r.all
       /\ book_obj' = r.objs
       /\ last' = Call(log, "Book", r.raised, r.ret)
       /\ UNCHANGED <<Author_all, Contract_all, author_obj, contract_obj>>

\* b.title = value
SetBookTitle(log, b, value) ==
    LET r == Book_title_set(book_obj[b], value)
    IN /\ book_obj' = [book_obj EXCEPT ![b] = r.obj]
       /\ last' = Call(log, "Book.title=", r.raised, NoneV)
       /\ UNCHANGED <<registries, author_obj, contract_obj>>

----------------------------------------------------------------------------
\* Contract

\* Contract.author setter
Contract_author_set(obj, value) ==
    IF ~isinstance(value, "Author")
    THEN [raised |-> TRUE, obj |-> obj]
    ELSE [raised |-> FALSE, obj |-> [obj EXCEPT !.author = value]]

\* Contract.book setter
Contract_book_set(obj, value) ==
    IF ~isinstance(value, "Book")
    THEN [raised |-> TRUE, obj |-> obj]
    ELSE [raised |-> FALSE, obj |-> [obj EXCEPT !.book = value]]

\* Contract.date setter
Contract_date_set(obj, value) ==
    IF ~isinstance(value, "str")
    THEN [raised |-> TRUE, obj |-> obj]
    ELSE [raised |-> FALSE, obj |-> [obj EXCEPT !.date = value]]

\* Contract.royalties setter that validates after storing
Contract_royalties_set_StoreFirst(obj, value) ==
    [raised |-> ~isinstance(value, "int"), obj |-> [obj EXCEPT !.royalties = value]]

\* Contract.royalties setter
Contract_royalties_set(obj, value) ==
    IF ~isinstance(value, "int")
    THEN [raised |-> TRUE, obj |-> obj]
    ELSE [raised |-> FALSE, obj |-> [obj EXCEPT !.royalties = value]]

\* Contract.__init__ that registers the instance before its fields are validated
Contract_init_AppendFirst(author, book, date, royalties) ==
    LET id == Cardinality(DOMAIN contract_obj) + 1
        new == [author |-> Unset, book |-> Unset, date |-> Unset, royalties |-> Unset]
        r1 == Contract_author_set(new, author)
        r2 == Contract_book_set(r1.obj, book)
        r3 == Contract_date_set(r2.obj, date)
        r4 == Contract_royalties_set(r3.obj, royalties)
        raised == r1.raised \/ r2.raised \/ r3.raised \/ r4.raised
        obj == IF r1.raised THEN r1.obj ELSE IF r2.raised THEN r2.obj
               ELSE IF r3.raised THEN r3.obj ELSE r4.obj
    IN [raised |-> raised, all |-> Append(Contract_all, id),
        objs |-> (id :> obj) @@ contract_obj,
        ret |-> IF raised THEN NoneV ELSE ContractRef(id)]

\* Contract.__init__ without the final Contract.all.append(self)
Contract_init_NoAppend(author, book, date, royalties) ==
    LET id == Cardinality(DOMAIN contract_obj) + 1
        new == [author |-> Unset, book |-> Unset, date |-> Unset, royalties |-> Unset]
        failed == [raised |-> TRUE, all |-> Contract_all, objs |-> contract_obj, ret |-> NoneV]
        r1 == Contract_author_set(new, author)
        r2 == Contract_book_set(r1.obj, book)
        r3 == Contract_date_set(r2.obj, date)
        r4 == Contract_royalties_set(r3.obj, royalties)
    IN IF r1.raised \/ r2.raised \/ r3.raised \/ r4.raised THEN failed
       ELSE [raised |-> FALSE, all |-> Contract_all,
             objs |-> (id :> r4.obj) @@ contract_obj, ret |-> ContractRef(id)]

\* Contract.__init__: the four setters in turn, then the append; the first
\* setter that raises ends the call and the new instance is dropped.
Contract_init(author, book, date, royalties) ==
    LET id == Cardinality(DOMAIN contract_obj) + 1
        new == [author |-> Unset, book |-> Unset, date |-> Unset, royalties |-> Unset]
        failed == [raised |-> TRUE, all |-> Contract_all, objs |-> contract_obj, ret |-> NoneV]
        r1 == Contract_author_set(new, author)
        r2 == Contract_book_set(r1.obj, book)
        r3 == Contract_date_set(r2.obj, date)
        r4 == Contract_royalties_set(r3.obj, royalties)
    IN IF r1.raised THEN failed
       ELSE IF r2.raised THEN failed
       ELSE IF r3.raised THEN failed
       ELSE IF r4.raised THEN failed
       ELSE [raised |-> FALSE, all |-> Append(Contract_all, id),
             objs |-> (id :> r4.obj) @@ contract_obj, ret |-> ContractRef(id)]

\* Contract(author, book, date, royalties)
NewContract(log, author, book, date, royalties) ==
    LET r == Contract_init(author, book, date, royalties)
    IN /\ Room(log)
       /\ Contract_all' = r.all
       /\ contract_obj' = r.objs
       /\ last' = Call(log, "Contract", r.raised, r.ret)
       /\ UNCHANGED <<Author_all, Book_all, author_obj, book_obj>>

\* a.sign_contract(book, date, royalties)
Author_sign_contract(log, a, book, date, royalties) ==
    LET r == Contract_init(AuthorRef(a), book, date, royalties)
    IN /\ Room(log)
       /\ Contract_all' = r.all
       /\ contract_obj' = r.objs
       /\ last' = Call(log, "sign_contract", r.raised, r.ret)
       /\ UNCHANGED <<Author_all, Book_all, author_obj, book_obj>>

\* c.author = value
SetContractAuthor(log, c, value) ==
    LET r == Contract_author_set(contract_obj[c], value)
    IN /\ contract_obj' = [contract_obj EXCEPT ![c] = r.obj]
       /\ last' = Call(log, "Contract.author=", r.raised, NoneV)
       /\ UNCHANGED <<registries, author_obj, book_obj>>

\* c.book = value
SetContractBook(log, c, value) ==
    LET r == Contract_book_set(contract_obj[c], value)
    IN /\ contract_obj' = [contract_obj EXCEPT ![c] = r.obj]
       /\ last' = Call(log, "Contract.book=", r.raised, NoneV)
       /\ UNCHANGED <<registries, author_obj, book_obj>>

\* c.date = value
SetContractDate(log, c, value) ==
    LET r == Contract_date_set(contract_obj[c], value)
    IN /\ contract_obj' = [contract_obj EXCEPT ![c] = r.obj]
       /\ last' = Call(log, "Contract.date=", r.raised, NoneV)
       /\ UNCHANGED <<registries, author_obj, book_obj>>

\* c.royalties = value
SetContractRoyalties(log, c, value) ==
    LET r == Contract_royalties_set(contract_obj[c], value)
    IN /\ contract_obj' = [contract_obj EXCEPT ![c] = r.obj]
       /\ last' = Call(log, "Contract.royalties=", r.raised, NoneV)
       /\ UNCHANGED <<registries, author_obj, book_obj>>

----------------------------------------------------------------------------
\* Relationship queries (read-only)

\* list(a set): the elements in any order, each once
RECURSIVE ListsOf(_)
ListsOf(S) ==
    IF S = {} THEN {<<>>}
    ELSE UNION {{<<x>> \o l : l \in ListsOf(S \ {x})} : x \in S}

\* sum(...) of a sequence of numbers, from 0
RECURSIVE sum(_)
sum(xs) == IF xs = <<>> THEN 0 ELSE Head(xs).n + sum(Tail(xs))

\* a.contracts() comparing authors by value (their names) instead of by identity
Author_contracts_ByName(a) ==
    SelectSeq(Contract_all, LAMBDA c :
        /\ contract_obj[c].author.kind = "Author"
        /\ author_obj[contract_obj[c].author.n].name = author_obj[a].name)

\* a.contracts()
Author_contracts(a) ==
    SelectSeq(Contract_all, LAMBDA c : PyIs(contract_obj[c].author, AuthorRef(a)))

\* a.books() without the set: one entry per contract
Author_books_NoSet(a) ==
    LET cs == Author_contracts(a)
    IN {[i \in DOMAIN cs |-> contract_obj[cs[i]].book]}

\* a.books(): the lists the call may return
Author_books(a) ==
    LET cs == Author_contracts(a)
    IN ListsOf({contract_obj[cs[i]].book : i \in DOMAIN cs})

\* a.total_royalties() summing every registered contract
Author_total_royalties_All(a) ==
    PyInt(sum([i \in DOMAIN Contract_all |-> contract_obj[Contract_all[i]].royalties]))

\* a.total_royalties()
Author_total_royalties(a) ==
    LET cs == Author_contracts(a)
    IN PyInt(sum([i \in DOMAIN cs |-> contract_obj[cs[i]].royalties]))

\* b.contracts()
Book_contracts(b) ==
    SelectSeq(Contract_all, LAMBDA c : PyIs(contract_obj[c].book, BookRef(b)))

\* b.authors(): the lists the call may return
Book_authors(b) ==
    LET cs == Book_contracts(b)
    IN ListsOf({contract_obj[cs[i]].author : i \in DOMAIN cs})

\* Contract.contracts_by_date(date) listing the latest contract first
Contract_contracts_by_date_Reversed(date) ==
    LET m == SelectSeq(Contract_all, LAMBDA c : PyEq(contract_obj[c].date, date))
    IN [i \in DOMAIN m |-> m[Len(m) + 1 - i]]

\* Contract.contracts_by_date(date)
Contract_contracts_by_date(date) ==
    SelectSeq(Contract_all, LAMBDA c : PyEq(contract_obj[c].date, date))

\* A query call returns the value above and leaves every instance and registry alone.
Query(log, op) ==
    /\ last' = Call(log, op, FALSE, NoneV)
    /\ UNCHANGED <<registries, heap>>

\* a.contracts(), a.books(), a.total_royalties() on some registered author a
QueryAuthorContracts(log) == Author_all /= <<>> /\ Query(log, "Author.contracts")
QueryAuthorBooks(log) == Author_all /= <<>> /\ Query(log, "Author.books")
QueryAuthorTotalRoyalties(log) == Author_all /= <<>> /\ Query(log, "Author.total_royalties")
\* b.contracts(), b.authors() on some registered book b
QueryBookContracts(log) == Book_all /= <<>> /\ Query(log, "Book.contracts")
QueryBookAuthors(log) == Book_all /= <<>> /\ Query(log, "Book.authors")
\* Contract.contracts_by_date(date) for some date
QueryContractsByDate(log) == Query(log, "Contract.contracts_by_date")

----------------------------------------------------------------------------
Step(log) ==
    \/ \E v \in NameInputs : NewAuthor(log, v)
    \/ \E a \in DOMAIN author_obj, v \in NameInputs : SetAuthorName(log, a, v)
    \/ \E v \in NameInputs : NewBook(log, v)
    \/ \E b \in DOMAIN book_obj, v \in NameInputs : SetBookTitle(log, b, v)
    \/ \E a \in AuthorArgs, b \in BookArgs, d \in DateArgs, r \in RoyaltiesArgs :
          NewContract(log, a, b, d, r)
    \/ \E a \in DOMAIN author_obj, b \in BookArgs, d \in DateArgs, r \in RoyaltiesArgs :
          Author_sign_contract(log, a, b, d, r)
    \/ \E c \in DOMAIN contract_obj, v \in AuthorInputs : SetContractAuthor(log, c, v)
    \/ \E c \in DOMAIN contract_obj, v \in BookInputs : SetContractBook(log, c, v)
    \/ \E c \in DOMAIN contract_obj, v \in DateInputs : SetContractDate(log, c, v)
    \/ \E c \in DOMAIN contract_obj, v \in RoyaltiesInputs : SetContractRoyalties(log, c, v)
    \/ QueryAuthorContracts(log)
    \/ QueryAuthorBooks(log)
    \/ QueryAuthorTotalRoyalties(log)
    \/ QueryBookContracts(log)
    \/ QueryBookAuthors(log)
    \/ QueryContractsByDate(log)

Next == Step(FALSE)
NextCalls == Step(TRUE)

Spec == Init /\ [][Next]_vars
SpecCalls == Init /\ [][NextCalls]_vars
----------------------------------------------------------------------------
\* Vocabulary of the properties

Range(xs) == {xs[i] : i \in DOMAIN xs}
NoRepeat(xs) == \A i, j \in DOMAIN xs : i /= j => xs[i] /= xs[j]
Pos(xs, x) == CHOOSE k \in DOMAIN xs : xs[k] = x

\* r lists exactly the members of the registry all that satisfy P, each once,
\* in the registry's order
ListsInOrder(r, all, P(_)) ==
    /\ Range(r) = {x \in Range(all) : P(x)}
    /\ \A i, j \in DOMAIN r : i < j => Pos(all, r[i]) < Pos(all, r[j])

RECURSIVE SumOver(_, _)
SumOver(S, f) ==
    IF S = {} THEN 0
    ELSE LET x == CHOOSE y \in S : TRUE IN f[x] + SumOver(S \ {x}, f)

AuthorsOf(b) == {contract_obj[c].author : c \in {x \in Range(Contract_all) : contract_obj[x].book = BookRef(b)}}
BooksOf(a) == {contract_obj[c].book : c \in {x \in Range(Contract_all) : contract_obj[x].author = AuthorRef(a)}}

----------------------------------------------------------------------------
\* C3: in every reachable state and for every date d, contracts_by_date(d) is
\* exactly the registered contracts whose current date is the string d, each
\* once, in creation order, and the empty sequence when there is none.
C3_ContractsByDate ==
    \A d \in DateInputs :
        LET r == Contract_contracts_by_date(d)
            Match(c) == contract_obj[c].date.kind = "str" /\ d.kind = "str"
                        /\ contract_obj[c].date.s = d.s
        IN /\ ListsInOrder(r, Contract_all, Match)
           /\ (~ \E c \in Range(Contract_all) : Match(c)) => r = <<>>

\* C3 witness: three contracts, the first of another date, the other two of date "s"
C3_Witness ==
    /\ Len(Contract_all) = 3
    /\ contract_obj[Contract_all[1]].date = PyStr("t")
    /\ Contract_contracts_by_date(PyStr("s")) = <<Contract_all[2], Contract_all[3]>>

\* C4: in every reachable state, a.contracts() is the subsequence of Contract.all,
\* in registry order, of the contracts whose author is a by identity (an equal
\* name does not count); b.contracts() is the same filter on the book.
C4_ContractsOf ==
    /\ \A a \in Range(Author_all) :
          ListsInOrder(Author_contracts(a), Contract_all,
                       LAMBDA c : contract_obj[c].author = AuthorRef(a))
    /\ \A b \in Range(Book_all) :
          ListsInOrder(Book_contracts(b), Contract_all,
                       LAMBDA c : contract_obj[c].book = BookRef(b))

\* C4 witness: two authors of the same name, each with a contract of its own
C4_Witness ==
    \E a1, a2 \in Range(Author_all) :
        /\ a1 /= a2
        /\ author_obj[a1].name = author_obj[a2].name
        /\ Len(Author_contracts(a1)) = 1
        /\ Len(Author_contracts(a2)) = 1
        /\ Author_contracts(a1) /= Author_contracts(a2)

\* C5: in every reachable state, a.total_royalties() is the sum of the current
\* royalties of a's contracts, and 0 when a has none.
C5_TotalRoyalties ==
    \A a \in Range(Author_all) :
        LET mine == {c \in Range(Contract_all) : contract_obj[c].author = AuthorRef(a)}
            roy == [c \in mine |-> contract_obj[c].royalties.n]
        IN /\ Author_total_royalties(a) = PyInt(SumOver(mine, roy))
           /\ mine = {} => Author_total_royalties(a) = PyInt(0)

\* C5 witness: an author with two contracts of royalties -1 each, and an author with none
C5_Witness ==
    \E a1, a2 \in Range(Author_all) :
        /\ Len(Author_contracts(a1)) = 2
        /\ \A i \in 1..2 : contract_obj[Author_contracts(a1)[i]].royalties = PyInt(-1)
        /\ Author_total_royalties(a1) = PyInt(-2)
        /\ Author_contracts(a2) = <<>>

\* C6: in every reachable state, every list a.books() may return holds exactly
\* the distinct Book instances of a's contracts, each once (by identity, so two
\* books of one title are both listed); b.authors() likewise.
C6_BooksAndAuthors ==
    /\ \A a \in Range(Author_all) :
          /\ Author_books(a) /= {}
          /\ \A l \in Author_books(a) : NoRepeat(l) /\ Range(l) = BooksOf(a)
    /\ \A b \in Range(Book_all) :
          /\ Book_authors(b) /= {}
          /\ \A l \in Book_authors(b) : NoRepeat(l) /\ Range(l) = AuthorsOf(b)

\* C6 witness: an author with two contracts for the same book
C6_Witness ==
    \E a \in Range(Author_all), b \in Range(Book_all) :
        /\ Len(Author_contracts(a)) = 2
        /\ BooksOf(a) = {BookRef(b)}
        /\ Author_books(a) = {<<BookRef(b)>>}
        /\ Book_authors(b) = {<<AuthorRef(a)>>}

\* C9: in every reachable state every registered Contract has an author in the
\* Author registry, a book in the Book registry, a string date and integer
\* royalties; every registered Author has a string name and every Book a string title.
C9_Integrity ==
    /\ \A c \in Range(Contract_all) :
          /\ contract_obj[c].author \in AuthorRefs
          /\ contract_obj[c].book \in BookRefs
          /\ contract_obj[c].date.kind = "str"
          /\ contract_obj[c].royalties.kind = "int"
    /\ \A a \in Range(Author_all) : author_obj[a].name.kind = "str"
    /\ \A b \in Range(Book_all) : book_obj[b].title.kind = "str"
----------------------------------------------------------------------------
\* Properties of the calls, over the record of the latest call

Constructors == {"Author", "Book", "Contract", "sign_contract"}
Setters == {"Author.name=", "Book.title=", "Contract.author=", "Contract.book=",
            "Contract.date=", "Contract.royalties="}

\* what every query returns, for every receiver and date
Answers ==
    [contracts |-> [a \in Range(Author_all) |-> Author_contracts(a)],
     books |-> [a \in Range(Author_all) |-> Author_books(a)],
     totals |-> [a \in Range(Author_all) |-> Author_total_royalties(a)],
     bcontracts |-> [b \in Range(Book_all) |-> Book_contracts(b)],
     authors |-> [b \in Range(Book_all) |-> Book_authors(b)],
     bydate |-> [d \in DateInputs |-> Contract_contracts_by_date(d)]]

\* r is all, or all with one new instance appended
SameOrAppended(r, all) ==
    \/ r = all
    \/ Len(r) = Len(all) + 1 /\ SubSeq(r, 1, Len(all)) = all /\ r[Len(r)] \notin Range(all)

\* C1: for a registered Author a, registered Book b, string d and integer r,
\* a.sign_contract(b, d, r) returns a Contract c with c.author is a, c.book is b,
\* c.date == d, c.royalties == r, and c is in a.contracts() and b.contracts()
\* right after the call.
C1_SignContract ==
    [][last'.op = "sign_contract" =>
          \A a \in Range(Author_all), b \in Range(Book_all), d \in Strings, r \in IntValues :
              Author_sign_contract(TRUE, a, BookRef(b), d, r) =>
                  /\ ~last'.raised
                  /\ last'.ret.kind = "Contract"
                  /\ contract_obj'[last'.ret.n] =
                         [author |-> AuthorRef(a), book |-> BookRef(b),
                          date |-> d, royalties |-> r]
                  /\ last'.ret.n \in Range(Author_contracts(a)')
                  /\ last'.ret.n \in Range(Book_contracts(b)')]_vars

\* C1 witness: sign_contract has just returned a contract, the second of the registry
C1_Witness ==
    /\ last.op = "sign_contract" /\ ~last.raised
    /\ Len(Contract_all) = 2
    /\ last.ret = ContractRef(Contract_all[2])
    /\ \E a \in Range(Author_all) : last.ret.n \in Range(Author_contracts(a))

\* C2: a Contract construction (direct or by sign_contract) that raises appends
\* nothing: Contract.all and every registered contract are as before, and so is
\* the answer of every query.
C2_FailedConstruction ==
    [][(last'.op \in {"Contract", "sign_contract"} /\ last'.raised) =>
          /\ Contract_all' = Contract_all
          /\ \A c \in Range(Contract_all) : contract_obj'[c] = contract_obj[c]
          /\ Answers' = Answers]_vars

\* C2 witness: a construction has just raised while a contract is registered
C2_Witness ==
    /\ last.op = "Contract" /\ last.raised
    /\ Len(Contract_all) = 1

\* C7: every assignment of a value of the wrong kind to a validated field, at
\* construction or later, raises: a non-string for name, title or date, a
\* non-Author for author, a non-Book for book, a non-integer (a boolean, a
\* non-integral number) for royalties.
C7_WrongKindRaises ==
    [][/\ \A v \in NameInputs : (v.kind /= "str" /\ NewAuthor(TRUE, v)) => last'.raised
       /\ \A v \in NameInputs : (v.kind /= "str" /\ NewBook(TRUE, v)) => last'.raised
       /\ \A a \in DOMAIN author_obj, v \in NameInputs :
             (v.kind /= "str" /\ SetAuthorName(TRUE, a, v)) => last'.raised
       /\ \A b \in DOMAIN book_obj, v \in NameInputs :
             (v.kind /= "str" /\ SetBookTitle(TRUE, b, v)) => last'.raised
       /\ \A c \in DOMAIN contract_obj, v \in AuthorInputs :
             (v.kind /= "Author" /\ SetContractAuthor(TRUE, c, v)) => last'.raised
       /\ \A c \in DOMAIN contract_obj, v \in BookInputs :
             (v.kind /= "Book" /\ SetContractBook(TRUE, c, v)) => last'.raised
       /\ \A c \in DOMAIN contract_obj, v \in DateInputs :
             (v.kind /= "str" /\ SetContractDate(TRUE, c, v)) => last'.raised
       /\ \A c \in DOMAIN contract_obj, v \in RoyaltiesInputs :
             (v.kind /= "int" /\ SetContractRoyalties(TRUE, c, v)) => last'.raised
       /\ \A a \in AuthorArgs, b \in BookArgs, d \in DateArgs, r \in RoyaltiesArgs :
             ((a.kind /= "Author" \/ b.kind /= "Book" \/ d.kind /= "str" \/ r.kind /= "int")
              /\ NewContract(TRUE, a, b, d, r)) => last'.raised
       /\ \A a \in DOMAIN author_obj, b \in BookArgs, d \in DateArgs, r \in RoyaltiesArgs :
             ((b.kind /= "Book" \/ d.kind /= "str" \/ r.kind /= "int")
              /\ Author_sign_contract(TRUE, a, b, d, r)) => last'.raised]_vars

\* C8: the three registries are append-only: every step leaves each registry as
\* it was or appends one new instance at its end; a construction that returns
\* appends exactly its instance to its own registry and nothing to the others;
\* a construction that raises, a reassignment and a query change no registry.
C8_AppendOnly ==
    [][/\ SameOrAppended(Author_all', Author_all)
       /\ SameOrAppended(Book_all', Book_all)
       /\ SameOrAppended(Contract_all', Contract_all)
       /\ (last'.op = "Author" /\ ~last'.raised /\ \E v \in NameInputs : NewAuthor(TRUE, v)) =>
             /\ Author_all' = Append(Author_all, last'.ret.n)
             /\ UNCHANGED <<Book_all, Contract_all>>
       /\ (last'.op = "Book" /\ ~last'.raised /\ \E v \in NameInputs : NewBook(TRUE, v)) =>
             /\ Book_all' = Append(Book_all, last'.ret.n)
             /\ UNCHANGED <<Author_all, Contract_all>>
       /\ (last'.op \in {"Contract", "sign_contract"} /\ ~last'.raised /\ last' /= last) =>
             /\ Contract_all' = Append(Contract_all, last'.ret.n)
             /\ UNCHANGED <<Author_all, Book_all>>
       /\ (last'.raised \/ last'.op \notin Constructors) => UNCHANGED registries]_vars

\* C8 witness: a third author has just been appended after the first two
C8_Witness ==
    /\ last.op = "Author" /\ ~last.raised
    /\ Len(Author_all) = 3
    /\ last.ret = AuthorRef(Author_all[3])
    /\ Len(Book_all) = 1

\* C10: a reassignment that raises changes nothing: the field keeps its value,
\* every other field of every instance and the three registries are unchanged
\* (the queries read nothing else, so they answer as before).
C10_RejectedAssignment ==
    [][(last'.op \in Setters /\ last'.raised) =>
          /\ UNCHANGED <<author_obj, book_obj, contract_obj>>
          /\ UNCHANGED registries]_vars

\* C10 witness: an assignment to the royalties of a registered contract has just raised
C10_Witness ==
    /\ last.op = "Contract.royalties=" /\ last.raised
    /\ Len(Contract_all) = 2
====
